---------------------------- MODULE Spec2Model ----------------------------
(***************************************************************************)
(* Model of the two remote-execution tools of the repository:             *)
(*   scripts/python/ssh_router.py    (class SSHRouter, main)              *)
(*   scripts/python/ssh_jump_exec.py (class SSHJumpExecutor, main)        *)
(*                                                                         *)
(* One process invocation is modelled from main() to its exit.  Strings   *)
(* are TLA+ strings; a target specification is a sequence of tokens so    *)
(* that the split('@') / split(':') of the code is computed, not assumed. *)
(* Python's None is the reserved string NoneVal.                          *)
(*                                                                         *)
(* IPv4 addresses are the literals of LiteralAddr; their value is the     *)
(* offset from 10.0.0.0, so the prefixes /30, /31 and /32 of 10.0.0.0/30  *)
(* nest as real CIDR blocks do, and 192.168.1.1 lies outside all of them. *)
(***************************************************************************)
EXTENDS Integers, Sequences, FiniteSets, TLC

VARIABLES
    tool,         \* "router" (ssh_router.py) or "jump" (ssh_jump_exec.py)
    args,         \* the parsed command line (argparse namespace)
    routes_file,  \* what the routes file holds: a load failure or a table
    dns,          \* what socket.gethostbyname answers for a host name
    pc,           \* position of the process
    routes,       \* SSHRouter.routes
    target_ip,    \* self.target_ip
    jump_chain,   \* SSHRouter.jump_chain / SSHJumpExecutor.jump_hosts
    result,       \* self.result
    ret,          \* the value run() is about to return
    log,          \* every subprocess.run call made so far, in order
    net_actions,  \* name resolutions attempted so far
    save_calls,   \* calls of save_output_file so far
    records,      \* result records written to the audit directory
    exit_code,    \* the process exit code (NoExit while running)
    message,      \* the error the process printed last ("" if none)
    listed,       \* routes list_routes has printed so far
    peer          \* another run in progress against the same target

vars == <<tool, args, routes_file, dns, pc, routes, target_ip, jump_chain,
          result, ret, log, net_actions, save_calls, records, exit_code,
          message, listed, peer>>

--------------------------------------------------------------------------
(* Values *)

NoneVal == "<None>"
NoExit == -1
NoCode == -1

\* Python truthiness of an optional string.
Truthy(v) == v # NoneVal /\ v # ""

\* Bound on the length of a route table.
MaxRoutes == 2

\* IPv4 literals and their value as an offset from 10.0.0.0 (shortened
\* for the addresses outside 10.0.0.0/30, which no modelled block holds).
LiteralAddr ==
    ("10.0.0.0" :> 0) @@ ("10.0.0.1" :> 1) @@ ("10.0.0.2" :> 2) @@
    ("10.0.0.3" :> 3) @@ ("192.168.1.1" :> 65) @@ ("127.0.0.1" :> 129)

\* A route's "network": the sentinels, an absent key, unparseable text, or
\* address/prefix text.  base is the address part, len the prefix length.
Sel(kind, base, len) == [kind |-> kind, base |-> base, len |-> len]
DefaultSel == Sel("default", "", 0)
DirectSel  == Sel("direct", "", 0)
MissingSel == Sel("none", "", 0)
GarbageSel == Sel("text", "not-a-network", 0)
Net(base, len) == Sel("cidr", base, len)

\* via is NoneVal for a route that has no "via" key.
Route(n, v) == [network |-> n, via |-> v]

\* The routes the tables are made of: every kind of selector, vias that
\* tell overlapping routes apart, and the vias Python takes as false.
AllRoutes ==
    { Route(DefaultSel, v) :
        v \in {"direct", "jumpA", "bastion1,bastion2", "", NoneVal} }
    \cup { Route(DirectSel, v) : v \in {"direct", "jumpA"} }
    \cup { Route(n, "jumpA") :
             n \in { MissingSel, GarbageSel,
                     Net("10.0.0.1", 31) } }  \* host bits set: ValueError
    \cup { Route(Net("10.0.0.0", 30), v) :
             v \in {"direct", "jumpA", "bastion1,bastion2", NoneVal} }
    \cup { Route(Net("10.0.0.0", 31), v) : v \in {"jumpA", "bastion1,bastion2"} }
    \cup { Route(Net("10.0.0.2", 31), v) : v \in {"direct", ""} }
    \cup { Route(Net("10.0.0.1", 32), v) : v \in {"jumpA", "bastion1,bastion2"} }

RECURSIVE TablesOfLen(_)
TablesOfLen(n) ==
    IF n = 0 THEN { <<>> }
    ELSE { Append(t, r) : t \in TablesOfLen(n - 1), r \in AllRoutes }

AllTables == UNION { TablesOfLen(n) : n \in 0..MaxRoutes }

--------------------------------------------------------------------------
(* ipaddress *)

RECURSIVE Pow2(_)
Pow2(n) == IF n = 0 THEN 1 ELSE 2 * Pow2(n - 1)

\* ipaddress.ip_address(s) succeeds.
IsIpAddress(s) == s \in DOMAIN LiteralAddr

\* ipaddress.ip_network(network) succeeds (strict: no host bits set).
IsIpNetwork(network) ==
    /\ network.kind = "cidr"
    /\ network.base \in DOMAIN LiteralAddr
    /\ network.len \in 0..32
    /\ LiteralAddr[network.base] % Pow2(32 - network.len) = 0

\* ip_address(ip) in ip_network(network), both known to parse.
Contains(network, ip) ==
    LiteralAddr[ip] \div Pow2(32 - network.len)
        = LiteralAddr[network.base] \div Pow2(32 - network.len)

\* A variant that forgets strictness: an address with host bits set is
\* taken as the network it lies in.
ip_in_network_lenient(ip, network) ==
    /\ IsIpAddress(ip)
    /\ network.kind = "cidr"
    /\ network.base \in DOMAIN LiteralAddr
    /\ Contains(network, ip)

\* SSHRouter.ip_in_network: any parse error gives False.
ip_in_network(ip, network) ==
    IF IsIpAddress(ip) /\ IsIpNetwork(network)
    THEN Contains(network, ip)
    ELSE FALSE

--------------------------------------------------------------------------
(* SSHRouter.find_route *)

Found(chain) == [ok |-> TRUE, chain |-> chain]
NotFound == [ok |-> FALSE, chain |-> NoneVal]

\* A variant with longest-prefix semantics restricted to "last match wins".
RECURSIVE FindRouteLastMatch(_, _, _, _)
FindRouteLastMatch(rs, ip, i, default_route) ==
    LET hits == { j \in i..Len(rs) :
                    /\ rs[j].network.kind \notin {"default", "direct"}
                    /\ ip_in_network(ip, rs[j].network) }
        defs == { j \in i..Len(rs) : rs[j].network.kind = "default" }
        last(S) == CHOOSE j \in S : \A k \in S : k <= j
    IN  IF hits # {} THEN Found(rs[last(hits)].via)
        ELSE IF defs # {} /\ Truthy(rs[last(defs)].via)
             THEN Found(rs[last(defs)].via)
        ELSE IF defs = {} /\ Truthy(default_route) THEN Found(default_route)
        ELSE NotFound

\* A variant in which the first "default" route is the fallback.
FindRouteFirstDefault(rs, ip, i, default_route) ==
    LET hits == { j \in i..Len(rs) :
                    /\ rs[j].network.kind \notin {"default", "direct"}
                    /\ ip_in_network(ip, rs[j].network) }
        defs == { j \in i..Len(rs) : rs[j].network.kind = "default" }
        first(S) == CHOOSE j \in S : \A k \in S : j <= k
    IN  IF hits # {} THEN Found(rs[first(hits)].via)
        ELSE IF Truthy(default_route) THEN Found(default_route)
        ELSE IF defs # {} /\ Truthy(rs[first(defs)].via)
        THEN Found(rs[first(defs)].via)
        ELSE NotFound

\* The loop of find_route from route i on, default_route being the
\* fallback recorded so far.
RECURSIVE FindRouteFrom(_, _, _, _)
FindRouteFrom(rs, ip, i, default_route) ==
    IF i > Len(rs)
    THEN IF Truthy(default_route) THEN Found(default_route) ELSE NotFound
    ELSE LET network == rs[i].network
             chain == rs[i].via
         IN  IF network.kind = "default"
             THEN FindRouteFrom(rs, ip, i + 1, chain)
             ELSE IF network.kind = "direct"
             THEN FindRouteFrom(rs, ip, i + 1, default_route)
             ELSE IF ip_in_network(ip, network)
             THEN Found(chain)
             ELSE FindRouteFrom(rs, ip, i + 1, default_route)

find_route(rs, ip) == FindRouteFrom(rs, ip, 1, NoneVal)


--------------------------------------------------------------------------
(* Strings the code splits *)

\* s.split(sep)[-1] on a token sequence: the tokens after the last sep.
RECURSIVE AfterLast(_, _)
AfterLast(s, sep) ==
    IF s = <<>> THEN <<>>
    ELSE IF s[Len(s)] = sep THEN <<>>
    ELSE Append(AfterLast(SubSeq(s, 1, Len(s) - 1), sep), s[Len(s)])

\* s.split(sep)[0]: the tokens before the first sep.
RECURSIVE BeforeFirst(_, _)
BeforeFirst(s, sep) ==
    IF s = <<>> THEN <<>>
    ELSE IF Head(s) = sep THEN <<>>
    ELSE <<Head(s)>> \o BeforeFirst(Tail(s), sep)

\* The text of a token sequence that holds no separator: "" or its token.
Text(s) == IF s = <<>> THEN "" ELSE s[1]

\* A variant that keeps the user@ prefix.
HostPartKeepUser(target) == Text(BeforeFirst(target, ":"))

\* addr = target_host.split('@')[-1]; addr = addr.split(':')[0]
HostPart(target) == Text(BeforeFirst(AfterLast(target, "@"), ":"))

\* Path(script).name
PathName(script) == script[Len(script)]

\* Path(script).stem: the name without its last suffix.
Stem(script) ==
    LET name == PathName(script)
    IN  CASE name = "check.sh" -> "check"
          [] name = "check.py" -> "check"
          [] name = "other.sh" -> "other"
          [] OTHER -> name

\* command.split()[0].replace('/', '_')
main_cmd(command) ==
    CASE command = "uptime -p" -> "uptime"
      [] command = "df -h" -> "df"
      [] command = "/usr/bin/uptime" -> "_usr_bin_uptime"
      [] OTHER -> command

\* output_file of save_output_file: the directory of the target IP, and
\* f"{main_cmd}-{timestamp}.json" or f"script-{script_name}-{timestamp}.json".
OutputFile(ip, command, script, timestamp) ==
    IF Truthy(command)
    THEN <<"audit", ip, main_cmd(command), timestamp>>
    ELSE <<"audit", ip, "script", Stem(script), timestamp>>

\* A variant that names the remote file after the script alone.
RemoteScriptNameOnly(script, pid) == <<"/tmp/", PathName(script)>>

\* f"/tmp/{script_name}.{os.getpid()}"
RemoteScript(script, pid) == <<"/tmp/", PathName(script), pid>>
NoPath == <<>>

--------------------------------------------------------------------------
(* Inputs *)

NoTarget == <<>>
Targets ==
    { <<"admin", "@", "10.0.0.1">>,
      <<"admin", "@", "10.0.0.2", ":", "22">>,
      <<"192.168.1.1">>,
      <<"admin", "@", "web1">>,
      NoTarget }

\* Targets whose host part is an IP literal: IPv4 with and without user@
\* and :port, IPv6 with and without user@.  The text is cut at every '@'
\* and ':' as the code's split calls cut it.
LiteralTargets ==
    { <<"10.0.0.1">>,
      <<"admin", "@", "10.0.0.1">>,
      <<"10.0.0.2", ":", "22">>,
      <<"admin", "@", "10.0.0.2", ":", "22">>,
      <<"admin", "@", "192.168.1.1", ":", "2222">>,
      <<"2001", ":", "db8", ":", ":", "1">>,
      <<"admin", "@", "2001", ":", "db8", ":", ":", "1">>,
      <<"admin", "@", "fe80", ":", ":", "2">> }

RouteFile(status, table) == [status |-> status, table |-> table]
BrokenFiles ==
    { RouteFile(s, <<>>) : s \in {"absent", "badjson", "nokey"} }

\* Route tables the runs are driven with: one per kind of chain.
RunTables ==
    { << Route(Net("10.0.0.0", 30), "jumpA"),
         Route(DefaultSel, "bastion1,bastion2") >>,
      << Route(DirectSel, "direct"),
         Route(Net("10.0.0.0", 31), "direct"),
         Route(Net("10.0.0.2", 31), NoneVal),
         Route(DefaultSel, "") >>,
      << Route(DirectSel, "direct") >> }

Commands == { NoneVal, "uptime" }
Scripts == { NoPath, <<"opt", "check.sh">> }
Keys == { NoneVal, "id_ed25519" }
JumpArgs == { "jumpA", "bastion1,bastion2" }
DnsAnswers == { NoneVal, "10.0.0.3" }

Args(target, command, script, key, upload, no_save, jump, exists, pid) ==
    [target |-> target, command |-> command, script |-> script,
     key |-> key, upload |-> upload, no_save |-> no_save, jump |-> jump,
     script_exists |-> exists, pid |-> pid, list |-> FALSE]

\* Every command line of the tool t.
AllArgs(t) ==
    { Args(tg, c, s, k, u, n, j, e, 4242) :
        tg \in Targets, c \in Commands, s \in Scripts, k \in Keys,
        u \in BOOLEAN, n \in BOOLEAN,
        j \in (IF t = "jump" THEN JumpArgs ELSE {NoneVal}),
        e \in (IF t = "jump" THEN BOOLEAN ELSE {TRUE}) }

\* The command lines `-t target -c uptime`.
CommandArgs(t) ==
    { Args(tg, "uptime", NoPath, NoneVal, FALSE, FALSE, NoneVal, TRUE, 4242) :
        tg \in Targets }

\* The command lines `-t target -c uptime` with an IP literal for host.
LiteralArgs(t) ==
    { Args(tg, "uptime", NoPath, NoneVal, FALSE, FALSE, NoneVal, TRUE, 4242) :
        tg \in LiteralTargets }

\* The command line `-r routes.json -l`.
ListArgs(t) ==
    { [Args(NoTarget, NoneVal, NoPath, NoneVal, FALSE, FALSE, NoneVal, TRUE,
            4242) EXCEPT !.list = TRUE] }

\* The target the list mode constructs its SSHRouter with.
Dummy == <<"dummy", "@", "localhost">>
LocalhostAnswers == { NoneVal, "127.0.0.1" }

\* self.timestamp, datetime.now().strftime("%Y%m%d-%H%M%S"): the second
\* this run was constructed in, and the one after it.
StartSecond == "20261103-101500"
NextSecond == "20261103-101501"

\* Another run of the same tool against the same target, in progress while
\* this one runs: its payload, its process id, whether it was started on
\* the same machine, and the second it was constructed in.
Peer(command, script, pid, same_host, timestamp) ==
    [command |-> command, script |-> script, pid |-> pid,
     same_host |-> same_host, timestamp |-> timestamp]

\* The operating system gives two live processes distinct ids; processes
\* of two machines may share one.
Peers(pid) ==
    { Peer(NoneVal, s, p, h, StartSecond) :
        s \in { <<"opt", "check.sh">>, <<"home", "ops", "check.sh">>,
                <<"opt", "other.sh">> },
        p \in { pid, pid + 1 },
        h \in BOOLEAN } \ { Peer(NoneVal, s, pid, TRUE, StartSecond) :
                               s \in { <<"opt", "check.sh">>,
                                       <<"home", "ops", "check.sh">>,
                                       <<"opt", "other.sh">> } }

\* A run of another script, started on the same machine.
OnePeer == Peer(NoneVal, <<"opt", "other.sh">>, 4243, TRUE, StartSecond)

\* Runs started on the same machine in the same second or the next one,
\* with a command or with a script.
RecordPeers ==
    { Peer(c, NoPath, 4243, TRUE, ts) :
        c \in { "uptime", "uptime -p", "/usr/bin/uptime", "df -h" },
        ts \in { StartSecond, NextSecond } }
    \cup { Peer(NoneVal, sc, 4243, TRUE, ts) :
             sc \in { <<"opt", "check.sh">>, <<"home", "ops", "check.py">>,
                      <<"opt", "other.sh">> },
             ts \in { StartSecond, NextSecond } }

\* The command lines `-t target -c uptime` and `-t target -s check.sh`.
RecordArgs(t) ==
    { Args(<<"admin", "@", "10.0.0.1">>, c[1], c[2], NoneVal, FALSE, FALSE,
           IF t = "jump" THEN "jumpA" ELSE NoneVal, TRUE, 4242) :
        c \in { <<"uptime", NoPath>>, <<NoneVal, <<"opt", "check.sh">> >> } }

\* The command lines `-t target -s check.sh [-u]`.
ScriptArgs(t) ==
    { Args(<<"admin", "@", "10.0.0.1">>, NoneVal, <<"opt", "check.sh">>,
           NoneVal, u, FALSE, IF t = "jump" THEN "jumpA" ELSE NoneVal, TRUE,
           4242) : u \in BOOLEAN }

--------------------------------------------------------------------------
(* self.result *)

\* The dictionary built at the end of __init__ (both classes).
InitialResult(ip, chain) ==
    [target_ip |-> ip, route |-> chain, success |-> FALSE,
     exit_code |-> NoCode, errors |-> <<>>, remote_script_path |-> NoPath]

NoResult == InitialResult("", NoneVal)

\* The resolver is asked only for a target that names a host.
DnsFor(target) ==
    IF IsIpAddress(HostPart(target)) \/ target = NoTarget
    THEN {NoneVal} ELSE DnsAnswers

\* self.target_host of the SSHRouter main() constructs.
target_host == IF args.list THEN Dummy ELSE args.target

InitWith(tools, files, argsets, peers) ==
    /\ tool \in tools
    /\ args \in argsets[tool]
    /\ peer \in peers
    /\ routes_file \in (IF tool = "router" THEN files
                        ELSE {RouteFile("absent", <<>>)})
    /\ dns \in (IF args.list THEN LocalhostAnswers ELSE DnsFor(args.target))
    /\ pc = "main"
    /\ routes = <<>>
    /\ target_ip = ""
    /\ jump_chain = NoneVal
    /\ result = NoResult
    /\ ret = FALSE
    /\ log = <<>>
    /\ net_actions = <<>>
    /\ save_calls = 0
    /\ records = <<>>
    /\ exit_code = NoExit
    /\ message = ""
    /\ listed = 0

\* sys.exit(n), or the interpreter ending on an uncaught exception.
Exit(n, text) == pc' = "exit" /\ exit_code' = n /\ message' = text

\* The process goes on.
Continue == UNCHANGED <<exit_code, message>>

--------------------------------------------------------------------------
(* main() and __init__ of ssh_router.py *)

\* A variant that lets a command line without a payload through.
NoPayloadNever(a) == FALSE

\* `not args.command and not args.script`
NoPayload(a) == ~Truthy(a.command) /\ a.script = NoPath

RouterMain ==
    /\ tool = "router" /\ pc = "main"
    /\ IF args.list
       THEN pc' = "load_routes" /\ Continue
       ELSE IF args.target = NoTarget
       THEN Exit(1, "Error: --target is required")
       ELSE IF NoPayload(args)
       THEN Exit(1, "Error: Either --command or --script must be specified")
       ELSE pc' = "load_routes" /\ Continue
    /\ UNCHANGED <<tool, args, listed, peer, routes_file, dns, routes, target_ip,
                   jump_chain, result, ret, log, net_actions, save_calls,
                   records>>

LoadRoutes ==
    /\ pc = "load_routes"
    /\ IF routes_file.status = "ok"
       THEN /\ routes' = routes_file.table
            /\ pc' = "extract_ip"
            /\ Continue
       ELSE /\ Exit(1, "Error: routes file")
            /\ UNCHANGED routes
    /\ UNCHANGED <<tool, args, listed, peer, routes_file, dns, target_ip, jump_chain,
                   result, ret, log, net_actions, save_calls, records>>

\* A variant without the fallback: a name that does not resolve gives no
\* routing key.
extract_ip_no_fallback(target, answer) ==
    LET addr == HostPart(target)
    IN  IF IsIpAddress(addr) THEN [ip |-> addr, resolved |-> FALSE]
        ELSE [ip |-> IF answer # NoneVal THEN answer ELSE "", resolved |-> TRUE]

\* A variant that asks the resolver first, also for an IP literal.
extract_ip_resolve_first(target, answer) ==
    LET addr == HostPart(target)
    IN  [ip |-> IF answer # NoneVal THEN answer ELSE addr, resolved |-> TRUE]

\* What extract_ip returns, and whether it asked the resolver.
extract_ip(target, answer) ==
    LET addr == HostPart(target)
    IN  IF IsIpAddress(addr) THEN [ip |-> addr, resolved |-> FALSE]
        ELSE IF answer # NoneVal THEN [ip |-> answer, resolved |-> TRUE]
        ELSE [ip |-> addr, resolved |-> TRUE]

ExtractIp ==
    /\ pc = "extract_ip"
    /\ LET r == extract_ip(target_host, dns)
       IN  /\ target_ip' = r.ip
           /\ net_actions' = IF r.resolved
                             THEN Append(net_actions, HostPart(target_host))
                             ELSE net_actions
    /\ pc' = "find_route"
    /\ UNCHANGED <<tool, args, listed, peer, routes_file, dns, routes, jump_chain,
                   result, ret, log, save_calls, records, exit_code, message>>

FindRoute ==
    /\ pc = "find_route"
    /\ LET r == find_route(routes, target_ip)
       IN  IF r.ok
           THEN /\ jump_chain' = r.chain
                /\ result' = InitialResult(target_ip, r.chain)
                /\ pc' = IF args.list THEN "list_routes"
                         ELSE "test_connectivity"
                /\ Continue
           ELSE /\ Exit(1, "Error: No route found")
                /\ UNCHANGED <<jump_chain, result>>
    /\ UNCHANGED <<tool, args, listed, peer, routes_file, dns, routes, target_ip, ret,
                   log, net_actions, save_calls, records>>

--------------------------------------------------------------------------
(* Transport invocations *)

ConnectTimeout == 10     \* -o ConnectTimeout=10
ProbeTimeout == 10       \* subprocess.run(..., timeout=10)
ExecTimeout == 300       \* subprocess.run(..., timeout=300)
NoTimeout == 0           \* subprocess.run called without timeout=

\* The argv of one subprocess.run call, as far as the claims read it:
\* the -J / ProxyJump values (relay), -i (identity), the host-key policy
\* and ConnectTimeout (0: not given).
Argv(prog, relay, identity, connect_timeout) ==
    [prog |-> prog, relay |-> relay, identity |-> identity,
     hostkey |-> "accept-new", connect_timeout |-> connect_timeout]

\* A variant that passes the relay option whatever the chain is.
build_ssh_command_always_jump(t, chain, key, use_jump) ==
    Argv("ssh", <<chain>>, key, ConnectTimeout)

\* build_ssh_command of SSHRouter (use_jump and the "direct" test) and of
\* SSHJumpExecutor (always -J self.jump_hosts).
build_ssh_command(t, chain, key, use_jump) ==
    IF t = "router"
    THEN Argv("ssh",
              IF use_jump /\ chain # "direct" THEN <<chain>> ELSE <<>>,
              key, ConnectTimeout)
    ELSE Argv("ssh", <<chain>>, key, ConnectTimeout)

\* The ssh argv as the callers build it: use_jump = (jump_chain != 'direct').
SshArgv == build_ssh_command(tool, jump_chain, args.key, jump_chain # "direct")

\* A variant of the copy that leaves the relay option out.
build_scp_command_no_relay(t, chain, key) ==
    Argv("scp", <<>>, key, IF t = "router" THEN 0 ELSE ConnectTimeout)

\* scp_cmd of execute_script.
build_scp_command(t, chain, key) ==
    IF t = "router"
    THEN Argv("scp", IF chain # "direct" THEN <<chain>> ELSE <<>>, key, 0)
    ELSE Argv("scp", <<chain>>, key, ConnectTimeout)

ScpArgv == build_scp_command(tool, jump_chain, args.key)

\* What can become of one subprocess.run call.  "noresponse": the remote
\* side never answers; "oserror": the program cannot be launched;
\* "typeerror": the argv holds None; "interrupt": KeyboardInterrupt.
Outcomes(argv, rcs) ==
    IF argv.prog = "ssh" /\ \E i \in 1..Len(argv.relay) : argv.relay[i] = NoneVal
    THEN {"typeerror"}
    ELSE rcs \cup {"noresponse", "oserror", "interrupt"}

PlainRcs == {"rc0", "rc1"}
ExecRcs == {"rc0", "rc1", "rc255"}

Returned(o) == o \in ExecRcs
ReturnCode(o) == CASE o = "rc0" -> 0 [] o = "rc1" -> 1 [] o = "rc255" -> 255

\* subprocess.run raises an Exception (TimeoutExpired when a timeout was
\* given and ran out).
Raised(o, timeout) ==
    \/ o \in {"oserror", "typeerror"}
    \/ o = "noresponse" /\ timeout # NoTimeout

\* str(e) of that exception.
ErrorText(o) == IF o = "noresponse" THEN "timeout" ELSE o

\* Without a timeout the call never returns.
Hangs(o, timeout) == o = "noresponse" /\ timeout = NoTimeout

\* One subprocess.run call: its argv, the host it connects to, the remote
\* file it names (NoPath if none), its timeout= and what became of it.
\* stdout is kept for the address probe only, the one call whose output
\* the code looks at.
Call(kind, argv, dest, path, timeout, o) ==
    [kind |-> kind, argv |-> argv, dest |-> dest, path |-> path,
     timeout |-> timeout, outcome |-> o, stdout |-> ""]

WithError(r, text) == [r EXCEPT !.errors = Append(@, text)]

\* KeyboardInterrupt is not an Exception: no handler of run() or main()
\* catches it and the interpreter ends.
Interrupted == Exit(130, "KeyboardInterrupt")

--------------------------------------------------------------------------
(* main() and __init__ of ssh_jump_exec.py *)

JumpMain ==
    /\ tool = "jump" /\ pc = "main"
    /\ IF args.target = NoTarget
       THEN Exit(2, "error: the following arguments are required: -t/--target")
       ELSE IF NoPayload(args)
       THEN Exit(1, "Error: Either --command or --script must be specified")
       ELSE IF args.script # NoPath /\ ~args.script_exists
       THEN Exit(1, "Error: Script file not found")
       ELSE pc' = "get_target_ip" /\ Continue
    /\ UNCHANGED <<tool, args, listed, peer, routes_file, dns, routes, target_ip,
                   jump_chain, result, ret, log, net_actions, save_calls,
                   records>>

\* What `hostname -I | awk '{print $1}'` can write: nothing, an empty
\* line, an address and its newline.
ProbeAnswers == { "", "\n", "10.0.0.3\n" }

\* str.strip() on the probe's answers.
strip(text) ==
    CASE text = "\n" -> ""
      [] text = "10.0.0.3\n" -> "10.0.0.3"
      [] OTHER -> text

\* get_target_ip, then the rest of __init__.
GetTargetIp ==
    /\ pc = "get_target_ip"
    /\ LET argv == build_ssh_command(tool, args.jump, args.key, TRUE)
       IN  \E o \in Outcomes(argv, PlainRcs), stdout \in ProbeAnswers :
             /\ o # "rc0" => stdout = ""
             /\ log' = Append(log,
                    [Call("addrprobe", argv, args.target, NoPath,
                          ProbeTimeout, o) EXCEPT !.stdout = stdout])
             /\ target_ip' = IF o = "rc0" /\ stdout # ""
                             THEN strip(stdout)
                             ELSE HostPart(args.target)
             /\ jump_chain' = args.jump
             /\ result' = InitialResult(target_ip', args.jump)
    /\ pc' = "test_connectivity"
    /\ UNCHANGED <<tool, args, listed, peer, routes_file, dns, routes, ret, net_actions,
                   save_calls, records, exit_code, message>>

--------------------------------------------------------------------------
(* run(): preflight *)

\* A variant that records right after the preflight.
DispatchSaveFirst == "save"

\* A variant that prefers the script when both are supplied.
DispatchScriptFirst ==
    IF args.script # NoPath THEN "execute_script"
    ELSE IF Truthy(args.command) THEN "execute_command"
    ELSE "exit"

\* The branch of run() after a successful preflight.
Dispatch ==
    IF Truthy(args.command) THEN "execute_command"
    ELSE IF args.script # NoPath THEN "execute_script"
    ELSE "exit"

\* A variant of the failure branch that probes again.
PreflightFailedRetries == pc' = "test_connectivity" /\ ret' = FALSE

\* A variant of the failure branch that goes on to the payload.
PreflightFailedGoesOn == pc' = Dispatch /\ UNCHANGED ret

\* `if not self.test_connectivity(): self.save_output_file(); return False`
PreflightFailed == pc' = "save" /\ ret' = FALSE

\* test_connectivity and the branch of run() on its value.
TestConnectivity ==
    /\ pc = "test_connectivity"
    /\ \E o \in Outcomes(SshArgv, PlainRcs) :
         /\ log' = Append(log, Call("preflight", SshArgv, args.target,
                                  NoPath, ProbeTimeout, o))
         /\ CASE o = "rc0" ->
                   /\ IF Dispatch = "exit"
                      THEN Exit(1, "Error: No command or script specified")
                      ELSE pc' = Dispatch /\ Continue
                   /\ UNCHANGED <<result, ret>>
              [] o = "rc1" ->
                   /\ result' = WithError(result, "Connection test failed")
                   /\ PreflightFailed
                   /\ Continue
              [] Raised(o, ProbeTimeout) ->
                   /\ result' = WithError(result, ErrorText(o))
                   /\ PreflightFailed
                   /\ Continue
              [] o = "interrupt" ->
                   /\ Interrupted
                   /\ UNCHANGED <<result, ret>>
    /\ UNCHANGED <<tool, args, listed, peer, routes_file, dns, routes, target_ip,
                   jump_chain, net_actions, save_calls, records>>

--------------------------------------------------------------------------
(* run(): a command *)

\* A variant that reports success whatever the exit code.
CommandReturnedAlwaysOk(r, rc) ==
    [r EXCEPT !.exit_code = rc, !.success = TRUE]

\* A variant that takes a non-zero exit code for an internal fault.
CommandReturnedWithError(r, rc) ==
    [r EXCEPT !.exit_code = rc, !.success = (rc = 0),
              !.errors = IF rc = 0 THEN @ ELSE Append(@, "exit code")]

\* self.result[...] = ... after the command (or the script) returned.
CommandReturned(r, rc) ==
    [r EXCEPT !.exit_code = rc, !.success = (rc = 0)]

ExecuteCommand ==
    /\ pc = "execute_command"
    /\ \E o \in Outcomes(SshArgv, ExecRcs) :
         /\ log' = Append(log, Call("command", SshArgv, args.target,
                                  NoPath, ExecTimeout, o))
         /\ CASE Returned(o) ->
                   /\ result' = CommandReturned(result, ReturnCode(o))
                   /\ ret' = (ReturnCode(o) = 0)
                   /\ pc' = "save"
                   /\ Continue
              [] Raised(o, ExecTimeout) ->
                   /\ result' = WithError(result, ErrorText(o))
                   /\ ret' = FALSE
                   /\ pc' = "save"
                   /\ Continue
              [] o = "interrupt" ->
                   /\ Interrupted
                   /\ UNCHANGED <<result, ret>>
    /\ UNCHANGED <<tool, args, listed, peer, routes_file, dns, routes, target_ip,
                   jump_chain, net_actions, save_calls, records>>

--------------------------------------------------------------------------
(* run(): a script *)

\* A variant of the copy's failure branch that goes on to chmod.
UploadFailedGoesOn(r) == pc' = "chmod" /\ result' = r /\ UNCHANGED ret

\* `if result.returncode != 0:` of execute_script.  Only SSHJumpExecutor
\* appends "Upload failed: ..." to the errors; SSHRouter returns False.
UploadFailed(r) ==
    /\ result' = IF tool = "jump" THEN WithError(r, "Upload failed") ELSE r
    /\ ret' = FALSE
    /\ pc' = "save"

\* remote_script of the running execute_script.
remote_script == RemoteScript(args.script, args.pid)

\* A variant of the handler that removes the remote file before it
\* returns.
ScriptExceptionCleansUp(o) ==
    /\ result' = WithError(result, ErrorText(o))
    /\ ret' = FALSE
    /\ pc' = "cleanup"
    /\ Continue

\* A variant of the handler that leaves result.errors alone.
ScriptExceptionUnrecorded(o) ==
    /\ result' = result
    /\ ret' = FALSE
    /\ pc' = "save"
    /\ Continue

\* `except Exception as e:` of execute_script, then run() saves.
ScriptException(o) ==
    /\ result' = WithError(result, ErrorText(o))
    /\ ret' = FALSE
    /\ pc' = "save"
    /\ Continue

\* subprocess.run(scp_cmd, capture_output=True): no timeout.
ExecuteScriptUpload ==
    /\ pc = "execute_script"
    /\ \E o \in Outcomes(ScpArgv, PlainRcs) :
         /\ log' = Append(log, Call("scp", ScpArgv, args.target,
                                  remote_script, NoTimeout, o))
         /\ CASE o = "rc0" ->
                   /\ pc' = "chmod"
                   /\ UNCHANGED <<result, ret>> /\ Continue
              [] o = "rc1" ->
                   /\ UploadFailed(result)
                   /\ Continue
              [] Raised(o, NoTimeout) -> ScriptException(o)
              [] Hangs(o, NoTimeout) ->
                   /\ pc' = "hung"
                   /\ UNCHANGED <<result, ret>> /\ Continue
              [] o = "interrupt" ->
                   /\ Interrupted
                   /\ UNCHANGED <<result, ret>>
    /\ UNCHANGED <<tool, args, listed, peer, routes_file, dns, routes, target_ip,
                   jump_chain, net_actions, save_calls, records>>

\* A variant that gives up when chmod returns a non-zero exit code.
AfterChmodChecked(rc) == IF rc = 0 THEN "exec_script" ELSE "save"

\* The statement after the chmod call: its CompletedProcess is dropped and
\* exec_cmd is built and run next.
AfterChmod(rc) == "exec_script"

\* subprocess.run(chmod_cmd, capture_output=True): no timeout, and the
\* return code is not looked at.
ExecuteScriptChmod ==
    /\ pc = "chmod"
    /\ \E o \in Outcomes(SshArgv, PlainRcs) :
         /\ log' = Append(log, Call("chmod", SshArgv, args.target,
                                  remote_script, NoTimeout, o))
         /\ CASE o \in PlainRcs ->
                   /\ pc' = AfterChmod(ReturnCode(o))
                   /\ UNCHANGED <<result, ret>> /\ Continue
              [] Raised(o, NoTimeout) -> ScriptException(o)
              [] Hangs(o, NoTimeout) ->
                   /\ pc' = "hung"
                   /\ UNCHANGED <<result, ret>> /\ Continue
              [] o = "interrupt" ->
                   /\ Interrupted
                   /\ UNCHANGED <<result, ret>>
    /\ UNCHANGED <<tool, args, listed, peer, routes_file, dns, routes, target_ip,
                   jump_chain, net_actions, save_calls, records>>

\* The result after the script returned: SSHJumpExecutor also records
\* remote_script_path, SSHRouter does not.
ScriptReturned(r, rc) ==
    IF tool = "jump"
    THEN [CommandReturned(r, rc) EXCEPT
            !.remote_script_path = remote_script]
    ELSE CommandReturned(r, rc)

\* A variant that cleans up only after a successful script.
AfterScriptCleanupOnSuccess(keep_script, rc) ==
    IF ~keep_script /\ rc = 0 THEN "cleanup" ELSE "save"

\* `if not keep_script:` after the script returned.
AfterScript(keep_script, rc) == IF ~keep_script THEN "cleanup" ELSE "save"

\* subprocess.run(exec_cmd, ..., timeout=300) and what follows it up to
\* the cleanup.
ExecuteScriptRun ==
    /\ pc = "exec_script"
    /\ \E o \in Outcomes(SshArgv, ExecRcs) :
         /\ log' = Append(log, Call("exec", SshArgv, args.target, remote_script,
                                  ExecTimeout, o))
         /\ CASE Returned(o) ->
                   /\ result' = ScriptReturned(result, ReturnCode(o))
                   /\ ret' = (ReturnCode(o) = 0)
                   /\ pc' = AfterScript(args.upload, ReturnCode(o))
                   /\ Continue
              [] Raised(o, ExecTimeout) -> ScriptException(o)
              [] o = "interrupt" ->
                   /\ Interrupted
                   /\ UNCHANGED <<result, ret>>
    /\ UNCHANGED <<tool, args, listed, peer, routes_file, dns, routes, target_ip,
                   jump_chain, net_actions, save_calls, records>>

\* subprocess.run(cleanup_cmd, capture_output=True): no timeout; then
\* `return result.returncode == 0`.
ExecuteScriptCleanup ==
    /\ pc = "cleanup"
    /\ \E o \in Outcomes(SshArgv, PlainRcs) :
         /\ log' = Append(log, Call("cleanup", SshArgv, args.target, remote_script,
                                  NoTimeout, o))
         /\ CASE o \in PlainRcs ->
                   /\ pc' = "save"
                   /\ UNCHANGED <<result, ret>> /\ Continue
              [] Raised(o, NoTimeout) -> ScriptException(o)
              [] Hangs(o, NoTimeout) ->
                   /\ pc' = "hung"
                   /\ UNCHANGED <<result, ret>> /\ Continue
              [] o = "interrupt" ->
                   /\ Interrupted
                   /\ UNCHANGED <<result, ret>>
    /\ UNCHANGED <<tool, args, listed, peer, routes_file, dns, routes, target_ip,
                   jump_chain, net_actions, save_calls, records>>

--------------------------------------------------------------------------
(* save_output_file, the end of run() and of main() *)

\* A variant that writes the result as it was before the run.
WrittenBeforeRun(rs, r) == Append(rs, InitialResult(r.target_ip, r.route))

\* A variant that writes the record twice.
WrittenTwice(rs, r) == Append(Append(rs, r), r)

\* json.dump(self.result, f): one record file.
Written(rs, r) == Append(rs, r)

\* A variant in which a failed write fails the run.
SaveFailedFatal ==
    /\ records' = records
    /\ Exit(1, "Error saving output")

\* `except Exception as e: print(f"Error saving output: {e}")`, then
\* `return success` and sys.exit(0 if success else 1).
SaveFailed ==
    /\ records' = records
    /\ Exit(IF ret THEN 0 ELSE 1, "Error saving output")

\* A variant in which a run that saves nothing reports success.
NotSavedExitsZero ==
    /\ records' = records
    /\ Exit(0, message)

\* `if not self.save_output: return`, then `return success` of run() and
\* sys.exit(0 if success else 1).
NotSaved ==
    /\ records' = records
    /\ Exit(IF ret THEN 0 ELSE 1, message)

\* save_output_file (a failed write is reported and swallowed), then
\* `return success` and sys.exit(0 if success else 1).
SaveOutputFile ==
    /\ pc = "save"
    /\ save_calls' = save_calls + 1
    /\ \E written \in BOOLEAN :
         IF args.no_save
         THEN written /\ NotSaved
         ELSE IF written
         THEN /\ records' = Written(records, result)
              /\ Exit(IF ret THEN 0 ELSE 1, message)
         ELSE SaveFailed
    /\ UNCHANGED <<tool, args, listed, peer, routes_file, dns, routes, target_ip,
                   jump_chain, result, ret, log, net_actions>>

--------------------------------------------------------------------------
(* SSHRouter.list_routes *)

ListConnectTimeout == 5   \* -o ConnectTimeout=5

\* jump_chain.split(',')[0]
FirstHop(chain) == IF chain = "bastion1,bastion2" THEN "bastion1" ELSE chain

\* One turn of the loop of list_routes: the route is printed and, unless
\* its chain is "direct", its first hop is probed; the bare `except:`
\* takes whatever the probe raises.  After the last route, sys.exit(0).
ListRoutes ==
    /\ pc = "list_routes"
    /\ IF listed < Len(routes)
       THEN LET route == routes[listed + 1]
                chain == IF route.via = NoneVal THEN "" ELSE route.via
                argv == Argv("ssh", <<>>, NoneVal, ListConnectTimeout)
            IN  /\ listed' = listed + 1
                /\ IF chain = "direct"
                   THEN log' = log
                   ELSE \E o \in {"rc0", "rc255", "noresponse", "interrupt"} :
                          log' = Append(log, Call("listprobe", argv,
                                                  <<FirstHop(chain)>>, NoPath,
                                                  ProbeTimeout, o))
                /\ pc' = pc
                /\ Continue
       ELSE /\ Exit(0, message)
            /\ UNCHANGED <<listed, log>>
    /\ UNCHANGED <<tool, args, peer, routes_file, dns, routes, target_ip,
                   jump_chain, result, ret, net_actions, save_calls, records>>

--------------------------------------------------------------------------
(* Specifications *)

Construct == RouterMain \/ JumpMain \/ LoadRoutes \/ ExtractIp \/ FindRoute
                \/ GetTargetIp

Run == TestConnectivity \/ ExecuteCommand \/ ExecuteScriptUpload
          \/ ExecuteScriptChmod \/ ExecuteScriptRun \/ ExecuteScriptCleanup
          \/ SaveOutputFile

OkFiles(tables) == { RouteFile("ok", t) : t \in tables }

\* Both tools, from main() to the exit, over the route tables RunTables.
Init ==
    InitWith({"router", "jump"}, BrokenFiles \cup OkFiles(RunTables),
             [t \in {"router", "jump"} |-> AllArgs(t)], {OnePeer})
Next == Construct \/ Run
Spec == Init /\ [][Next]_vars

\* Every step that is enabled is taken: the process is never suspended
\* for ever (a call that hangs leaves no step enabled).
FairSpec == Spec /\ WF_vars(Next)

\* Route resolution of SSHRouter over every route table of at most
\* MaxRoutes routes.
RouteInit ==
    InitWith({"router"}, BrokenFiles \cup OkFiles(AllTables),
             [t \in {"router"} |-> CommandArgs(t)], {OnePeer})
RouteNext == RouterMain \/ LoadRoutes \/ ExtractIp \/ FindRoute
RouteSpec == RouteInit /\ [][RouteNext]_vars

\* The construction of SSHRouter for targets given by IP literal.
LiteralInit ==
    InitWith({"router"}, BrokenFiles \cup OkFiles(RunTables),
             [t \in {"router"} |-> LiteralArgs(t)], {OnePeer})
LiteralSpec == LiteralInit /\ [][RouteNext]_vars

\* The list mode of SSHRouter over every route table of at most MaxRoutes
\* routes.
ListInit ==
    InitWith({"router"}, BrokenFiles \cup OkFiles(AllTables),
             [t \in {"router"} |-> ListArgs(t)], {OnePeer})
ListNext == RouterMain \/ LoadRoutes \/ ExtractIp \/ FindRoute \/ ListRoutes
ListSpec == ListInit /\ [][ListNext]_vars

\* Command and script runs of both tools beside another run against the
\* same target.
RecordInit ==
    InitWith({"router", "jump"}, OkFiles(RunTables),
             [t \in {"router", "jump"} |-> RecordArgs(t)], RecordPeers)
RecordSpec == RecordInit /\ [][Next]_vars

\* Script runs of both tools beside another run against the same target.
PairInit ==
    InitWith({"router", "jump"}, OkFiles(RunTables),
             [t \in {"router", "jump"} |-> ScriptArgs(t)], Peers(4242))
PairNext == Construct \/ TestConnectivity \/ ExecuteScriptUpload
               \/ ExecuteScriptChmod \/ ExecuteScriptRun
               \/ ExecuteScriptCleanup \/ SaveOutputFile
PairSpec == PairInit /\ [][PairNext]_vars

--------------------------------------------------------------------------
(* Route resolution: C1, C2 *)

\* find_route has run: it returned a chain or printed its error.
FindRouteReturned == tool = "router" /\ pc = "test_connectivity"
FindRouteFailed ==
    tool = "router" /\ pc = "exit" /\ message = "Error: No route found"
FindRouteRan == FindRouteReturned \/ FindRouteFailed

\* The routes whose network is a CIDR block that contains the target IP.
CidrMatches ==
    { i \in 1..Len(routes) :
        /\ routes[i].network.kind = "cidr"
        /\ IsIpNetwork(routes[i].network)
        /\ IsIpAddress(target_ip)
        /\ Contains(routes[i].network, target_ip) }

DefaultRoutes == { i \in 1..Len(routes) : routes[i].network.kind = "default" }

First(S) == CHOOSE i \in S : \A j \in S : i <= j
Last(S) == CHOOSE i \in S : \A j \in S : j <= i

\* C1: when some route's network is a CIDR block containing the target
\* IP, find_route returns the via of the first such route in declared
\* order, whatever follows it; and a chain returned when no CIDR block
\* contains the IP is the via of a "default" route, never of a "direct"
\* one.
C1_FirstCidrMatchWins ==
    FindRouteRan =>
        /\ CidrMatches # {} =>
              /\ FindRouteReturned
              /\ jump_chain = routes[First(CidrMatches)].via
        /\ (CidrMatches = {} /\ FindRouteReturned) =>
              \E i \in DefaultRoutes : jump_chain = routes[i].via

\* C1 witness: the first match won over a later, longer-prefix match that
\* names another chain, with a sentinel route nowhere returned.
C1_Witness ==
    /\ FindRouteReturned
    /\ \E i, j \in CidrMatches :
         /\ i < j
         /\ routes[j].network.len > routes[i].network.len
         /\ routes[j].via # routes[i].via
         /\ jump_chain = routes[i].via

\* C2 (as stated): when no CIDR route contains the target IP, find_route
\* returns the via of the last-declared "default" route if there is one,
\* whatever that via is, and fails with "No route found" and exit code 1
\* if there is none.
C2_DefaultFallback ==
    (FindRouteRan /\ CidrMatches = {}) =>
        IF DefaultRoutes # {}
        THEN /\ FindRouteReturned
             /\ jump_chain = routes[Last(DefaultRoutes)].via
        ELSE FindRouteFailed /\ exit_code = 1

\* C2 (amended): when no CIDR route contains the target IP, find_route
\* returns the via of the last-declared "default" route if that via is a
\* non-empty string, wherever the default routes sit; if the table has no
\* default route, or the last-declared one has an empty via or none,
\* resolution fails with "No route found" and exit code 1.
C2_NonEmptyDefault ==
    (FindRouteRan /\ CidrMatches = {}) =>
        IF DefaultRoutes # {} /\ Truthy(routes[Last(DefaultRoutes)].via)
        THEN /\ FindRouteReturned
             /\ jump_chain = routes[Last(DefaultRoutes)].via
        ELSE FindRouteFailed /\ exit_code = 1

\* C2 reached: two default routes, the last one's via returned.
C2_Witness ==
    /\ FindRouteReturned /\ CidrMatches = {}
    /\ Cardinality(DefaultRoutes) = 2
    /\ routes[1].via # routes[2].via
    /\ jump_chain = routes[2].via

--------------------------------------------------------------------------
(* The run: C3 .. C10 *)

\* The subprocess.run calls of a kind made so far.
Calls(kinds) == { i \in 1..Len(log) : log[i].kind \in kinds }
Issued(kind) == Calls({kind}) # {}
OutcomeOf(kind, outcomes) ==
    \E i \in Calls({kind}) : log[i].outcome \in outcomes

\* The preflight probe failed: non-zero exit, timeout, or an error raised
\* by subprocess.run.
ProbeFailed ==
    OutcomeOf("preflight", {"rc1", "noresponse", "oserror", "typeerror"})

\* The secure copy failed: non-zero exit, or scp could not be launched.
CopyFailed == OutcomeOf("scp", {"rc1", "oserror"})

\* run() returned and main() called sys.exit with its value.
RunReturned ==
    pc = "exit" /\ Issued("preflight") /\ message # "KeyboardInterrupt"

\* C3: once the preflight probe has failed, no command, copy, chmod,
\* script execution or cleanup call is ever made, and result.errors holds
\* the connectivity error.
C3_PreflightFailureStopsRun ==
    ProbeFailed =>
        /\ Calls({"command", "scp", "chmod", "exec", "cleanup"}) = {}
        /\ Len(result.errors) = 1
        /\ result.errors[1] \in
              {"Connection test failed", "timeout", "oserror", "typeerror"}

\* C3 witness: a run that ended after its probe timed out.
C3_Witness ==
    /\ RunReturned
    /\ OutcomeOf("preflight", {"noresponse"})
    /\ result.errors = <<"timeout">>
    /\ exit_code = 1

\* C4: a script run whose upload succeeded and whose keep flag is not set
\* has issued the cleanup call by the time the process ends, whether the
\* script execution returned 0, returned non-zero or ran into its timeout.
C4_CleanupAfterEveryScriptRun ==
    ( /\ pc = "exit" /\ message # "KeyboardInterrupt"
      /\ OutcomeOf("scp", {"rc0"})
      /\ ~args.upload
      /\ OutcomeOf("exec", {"rc0", "rc1", "rc255", "noresponse"}) )
    => Issued("cleanup")

\* The process has ended after the result was created (by run() returning
\* or by an interrupt).
RunEnded == pc = "exit" /\ Issued("preflight")

\* C5: when the run has ended, result.success is true exactly when the
\* command or script process returned exit code 0 and neither the
\* preflight probe nor the upload failed.
C5_SuccessIffExitZero ==
    RunEnded =>
        ( result.success <=>
            /\ OutcomeOf("command", {"rc0"}) \/ OutcomeOf("exec", {"rc0"})
            /\ ~ProbeFailed
            /\ ~CopyFailed )

\* C5 witness: a script run that returned 0, and so succeeded.
C5_Witness ==
    /\ RunReturned /\ result.success
    /\ OutcomeOf("exec", {"rc0"})
    /\ result.exit_code = 0

\* C6: with output saving enabled no record is written before run() is
\* about to return, and when run() has returned, on whichever path
\* (preflight failure, upload failure, execution timeout, non-zero exit,
\* success), save_output_file has been called exactly once and, unless
\* the write itself failed, exactly one record holds the final result.
C6_RecordPersistedOnce ==
    ~args.no_save =>
        /\ pc # "exit" => records = <<>> /\ save_calls = 0
        /\ RunReturned =>
              /\ save_calls = 1
              /\ IF message = "Error saving output"
                 THEN records = <<>>
                 ELSE records = <<result>>

\* C6 witness: the record of a script run whose execution timed out.
C6_Witness ==
    /\ RunReturned /\ ~args.no_save
    /\ OutcomeOf("exec", {"noresponse"})
    /\ records = <<result>>
    /\ save_calls = 1

\* C7: a process that a user interrupt ended during a step of the run has
\* still called save_output_file and written the partial result.
C7_InterruptStillPersists ==
    ( /\ pc = "exit" /\ message = "KeyboardInterrupt"
      /\ ~args.no_save )
    => save_calls >= 1 /\ records # <<>>

\* C8: once the secure copy has failed, no chmod, script execution or
\* cleanup call is ever made, success is never set, and the process ends
\* with exit code 1.
C8_UploadFailureStopsRun ==
    CopyFailed =>
        /\ Calls({"chmod", "exec", "cleanup"}) = {}
        /\ ~result.success
        /\ pc \in {"save", "exit"}
        /\ pc = "exit" => exit_code = 1

\* C8 witness: a run that ended after scp returned non-zero.
C8_Witness ==
    /\ RunReturned
    /\ OutcomeOf("scp", {"rc1"})
    /\ exit_code = 1

\* C9: once the secure copy has returned a non-zero exit code, an upload
\* error is in result.errors.
C9_UploadErrorRecorded ==
    OutcomeOf("scp", {"rc1"}) => result.errors # <<>>

\* C10: with SSHRouter every call of the run carries no relay option when
\* the resolved chain is "direct", and otherwise exactly one, whose value
\* is the resolved chain.
C10_RelayDirectiveIsChain ==
    tool = "router" =>
        \A i \in Calls({"preflight", "command", "scp", "chmod", "exec", "cleanup"}) :
            log[i].argv.relay =
                IF jump_chain = "direct" THEN <<>> ELSE <<jump_chain>>

\* C10 witness: a whole script run over a "direct" chain, no call of
\* which names a relay.
C10_Witness ==
    /\ tool = "router" /\ jump_chain = "direct"
    /\ Issued("scp") /\ Issued("cleanup")
    /\ \A i \in 1..Len(log) : log[i].argv.relay = <<>>

--------------------------------------------------------------------------
(* Concurrent script runs: C11 *)

\* The remote file the other run uploads, executes and removes.
PeerPath == RemoteScript(peer.script, peer.pid)

SameBaseName == PathName(peer.script) = PathName(args.script)

\* The calls of this run that name a remote file.
FileCalls == { i \in 1..Len(log) : log[i].path # NoPath }

\* No call of this run names the other run's remote file, and the two
\* files differ.
Apart ==
    /\ remote_script # PeerPath
    /\ \A i \in FileCalls : log[i].path # PeerPath

\* C11 (as stated): two script runs in progress at the same time, with
\* scripts of the same base name and the same target, use distinct remote
\* temporary paths, so neither run's upload, execution or cleanup touches
\* the other run's file.
C11_DistinctRemotePaths == SameBaseName => Apart

\* C11 (amended): two script runs started on the same machine and in
\* progress at the same time use distinct remote temporary paths, whatever
\* their scripts are called; runs started on two machines with the same
\* base name use the same path exactly when their process ids are equal.
C11_DistinctRemotePathsSameHost ==
    /\ peer.same_host => Apart
    /\ SameBaseName => (Apart <=> peer.pid # args.pid)

\* C11 witness: the whole script run, cleanup included, went by beside a
\* run on the same machine of a script of the same base name in another
\* directory.
C11_Witness ==
    /\ peer.same_host /\ SameBaseName /\ peer.script # args.script
    /\ pc = "exit"
    /\ \E i \in FileCalls : log[i].kind = "cleanup"
    /\ \E i \in FileCalls : log[i].kind = "scp"

--------------------------------------------------------------------------
(* Exit codes of the execute mode: C12 *)

\* The command line has neither --command nor --script.
Neither == ~Truthy(args.command) /\ args.script = NoPath

\* The process of ssh_router.py has exited by sys.exit.
RouterExited ==
    tool = "router" /\ pc = "exit" /\ message # "KeyboardInterrupt"

\* The remote command or script returned a non-zero exit code.
RemoteNonZero ==
    \/ OutcomeOf("command", {"rc1", "rc255"})
    \/ OutcomeOf("exec", {"rc1", "rc255"})

\* The fatal conditions of the execute mode.
Fatal ==
    \/ args.target = NoTarget
    \/ Neither
    \/ routes_file.status # "ok"
    \/ FindRouteFailed
    \/ ProbeFailed
    \/ CopyFailed
    \/ RemoteNonZero

\* Each fatal condition ends the process with exit code 1.
FatalExitsOne == (RouterExited /\ Fatal) => exit_code = 1

\* C12: in execute mode the exit code of ssh_router.py is 0 when the run
\* succeeded (result.success) and 1 in each fatal condition: routes file
\* missing or malformed, no route found, preflight failure, upload
\* failure, non-zero remote exit, missing target, missing payload.
C12_ExitCodes ==
    /\ FatalExitsOne
    /\ (RouterExited /\ result.success) => exit_code = 0

\* C12 witness: a successful script run that exited with code 1.
C12_Witness ==
    /\ RouterExited /\ result.success /\ exit_code = 1
    /\ OutcomeOf("exec", {"rc0"})

--------------------------------------------------------------------------
(* Failures of the construction: C13 *)

\* load_routes has printed its error and exited.
LoadFailed ==
    tool = "router" /\ pc = "exit" /\ message = "Error: routes file"

\* Nothing was sent to any host and no record was written.
NoRemoteCall == log = <<>> /\ records = <<>> /\ save_calls = 0

--------------------------------------------------------------------------
(* Timeouts: C14, C15 *)

\* The calls of the given kinds were made with timeout=.
Bounded(kinds) == \A i \in Calls(kinds) : log[i].timeout # NoTimeout

\* The process waits for ever on a call that does not return.
Hung == pc = "hung"

\* The probe, the command and the script execution carry a timeout.
ProbeAndExecBounded == Bounded({"addrprobe", "preflight", "command", "exec"})

\* C14: every remote invocation (preflight, scp, chmod, command or script
\* execution, cleanup) is made with an explicit timeout, so no run waits
\* for ever on a remote host.
C14_EveryCallBounded ==
    /\ Bounded({"preflight", "scp", "chmod", "command", "exec", "cleanup"})
    /\ ~Hung

\* C14 witness: a run waiting for ever on its cleanup call, after the
\* script has returned.
C14_Witness ==
    /\ Hung
    /\ OutcomeOf("cleanup", {"noresponse"})
    /\ ~Bounded({"cleanup"})

\* The preflight probe, the command or the script execution ran into its
\* timeout.
TimedOut ==
    \/ OutcomeOf("preflight", {"noresponse"})
    \/ OutcomeOf("command", {"noresponse"})
    \/ OutcomeOf("exec", {"noresponse"})

\* C15: after the preflight probe or the execution has timed out the run
\* does not crash: it goes on to save and exit, result.success is false,
\* result.errors holds the timeout, the record is persisted (unless saving
\* is off or the write fails) and the exit code is 1.
C15_TimeoutEndsRunFailed ==
    TimedOut =>
        /\ pc \in {"save", "exit"}
        /\ ~result.success /\ ~ret
        /\ result.errors = <<"timeout">>
        /\ pc = "exit" =>
              /\ exit_code = 1
              /\ save_calls = 1
              /\ records = IF args.no_save \/ message = "Error saving output"
                           THEN <<>> ELSE <<result>>

\* C15 witness: a script run whose execution timed out has exited with its
\* record written.
C15_Witness ==
    /\ OutcomeOf("exec", {"noresponse"})
    /\ pc = "exit" /\ exit_code = 1
    /\ records = <<result>>
    /\ result.errors = <<"timeout">>

--------------------------------------------------------------------------
(* The recorded remote script path: C16 *)

\* The payload was a script and its upload succeeded.
Uploaded == OutcomeOf("scp", {"rc0"})

PathRecorded == result.remote_script_path # NoPath

\* A recorded path is the path of an uploaded script.
PathOnlyAfterUpload ==
    PathRecorded => (Uploaded /\ result.remote_script_path = remote_script)

\* C16: in the result of a run the remote script path is present exactly
\* when the payload was a script and its upload succeeded, whatever the
\* script's exit code and also when its execution timed out; it is absent
\* for a command run and after a failed upload.
C16_PathIffUploaded == RunReturned => (PathRecorded <=> Uploaded)

\* C16 witness: a script was uploaded, ran and returned 0, and the result
\* of the run has no remote script path.
C16_Witness ==
    /\ RunReturned /\ Uploaded /\ OutcomeOf("exec", {"rc0"})
    /\ ~PathRecorded
    /\ records = <<result>>

--------------------------------------------------------------------------
(* The chain a resolved route gives: C17 *)

\* "direct", or a non-empty list of relays.
UsableChain(chain) == chain = "direct" \/ Truthy(chain)

\* C17: for every target whose route resolution does not fail, the chain
\* used and recorded (result.route) is "direct" or a non-empty relay
\* list, never empty or absent, also when the matching route has no via
\* or an empty one.
C17_ChainNeverEmpty ==
    FindRouteReturned =>
        /\ UsableChain(jump_chain)
        /\ result.route = jump_chain

\* A chain taken from a "default" route is never empty or absent.
DefaultChainNeverEmpty ==
    (FindRouteReturned /\ CidrMatches = {}) => UsableChain(jump_chain)

\* C17 witness: resolution succeeded on a CIDR route without a via key, and
\* the chain is absent.
C17_Witness ==
    /\ FindRouteReturned
    /\ CidrMatches # {}
    /\ routes[First(CidrMatches)].via = NoneVal
    /\ jump_chain = NoneVal /\ result.route = NoneVal

--------------------------------------------------------------------------
(* List mode: C18 *)

\* The process was started with --list on a routes file that loads, and
\* has exited.
ListEnded ==
    tool = "router" /\ args.list /\ routes_file.status = "ok" /\ pc = "exit"

NonDirect(route) == route.via # "direct"

\* The first hops list_routes has to probe, in table order.
HopsToProbe ==
    LET rs == SelectSeq(routes, NonDirect)
    IN  [i \in 1..Len(rs) |->
           << FirstHop(IF rs[i].via = NoneVal THEN "" ELSE rs[i].via) >>]

\* Every route was printed and the first hop of every chain other than
\* "direct" was probed, in table order.
AllListed ==
    /\ listed = Len(routes)
    /\ [i \in 1..Len(log) |-> log[i].dest] = HopsToProbe
    /\ \A i \in 1..Len(log) : log[i].kind = "listprobe"

\* What the list mode does: it lists every route and exits 0 when the
\* table has a route for the address of localhost, whatever the probes
\* give, and exits 1 with nothing listed when it has none.
ListedIffLocalhostRouted ==
    ListEnded =>
        IF find_route(routes, target_ip).ok
        THEN exit_code = 0 /\ AllListed
        ELSE exit_code = 1 /\ listed = 0 /\ log = <<>>

\* C18: list mode prints every route, probing the first hop of each chain
\* other than "direct", and exits 0 whatever routes the table holds, also
\* when it has no "default" route.
C18_ListAlwaysExitsZero == ListEnded => (exit_code = 0 /\ AllListed)

\* C18 witness: the list mode exited 1 without printing the one route of
\* a table that has no "default" route.
C18_Witness ==
    /\ ListEnded /\ exit_code = 1 /\ listed = 0 /\ log = <<>>
    /\ Len(routes) = 1 /\ DefaultRoutes = {}
    /\ message = "Error: No route found"

--------------------------------------------------------------------------
(* Argument checks of the execute mode: C19 *)

BothSupplied == Truthy(args.command) /\ args.script # NoPath

\* main() has ended the process at one of its argument checks.
Rejected ==
    /\ pc = "exit"
    /\ message \in
         { "Error: --target is required",
           "error: the following arguments are required: -t/--target",
           "Error: Either --command or --script must be specified",
           "Error: Script file not found" }
    /\ log = <<>> /\ net_actions = <<>> /\ save_calls = 0

\* main() has gone past its argument checks and built the executor.
Accepted == pc # "main" /\ ~Rejected

--------------------------------------------------------------------------
(* A record that cannot be written: C20 *)

\* The step of save_output_file and of the exit that follows it.
SaveStep == pc = "save" /\ pc' = "exit"

\* C20: when the write of the record fails the failure is reported and
\* nothing else changes: result (success and errors included) is what it
\* was before the save, and the exit code is the one a successful write
\* ends with, 0 if run() returns True and 1 otherwise.
C20_WriteFailureChangesNothing ==
    [][SaveStep =>
          /\ result' = result
          /\ exit_code' = IF ret THEN 0 ELSE 1
          /\ records' \in {records, Append(records, result)}
          /\ (records' = records /\ ~args.no_save) <=>
                message' = "Error saving output"]_vars

\* C20 witness: a run whose command succeeded and whose record could not
\* be written has exited with code 0.
C20_Witness ==
    /\ pc = "exit" /\ message = "Error saving output"
    /\ records = <<>> /\ save_calls = 1
    /\ result.success /\ result.errors = <<>> /\ exit_code = 0

--------------------------------------------------------------------------
(* Record files of two runs: C21 *)

\* The file this run writes its record to, and the one the other run
\* writes to (same tool, same target, hence the same directory).
output_file == OutputFile(target_ip, args.command, args.script, StartSecond)
PeerOutputFile ==
    OutputFile(target_ip, peer.command, peer.script, peer.timestamp)

SameSecond == peer.timestamp = StartSecond

\* The two runs have the same first command word, or scripts of the same
\* stem.
SameRecordName ==
    IF Truthy(args.command)
    THEN Truthy(peer.command) /\ main_cmd(peer.command) = main_cmd(args.command)
    ELSE ~Truthy(peer.command) /\ Stem(peer.script) = Stem(args.script)

\* The two records go to one file exactly when the runs started in the
\* same second and their payloads have the same name.
OneFileIffSameName ==
    records # <<>> =>
        (output_file = PeerOutputFile <=> (SameSecond /\ SameRecordName))

\* C21: two runs against the same target that start within the same
\* second never write their records to the same file, so neither record
\* overwrites the other.
C21_RecordPathsDistinct ==
    (records # <<>> /\ SameSecond) => output_file # PeerOutputFile

\* C21 witness: `-c uptime` has written its record to the file that a run
\* of `-c "uptime -p"`, started in the same second, writes to.
C21_Witness ==
    /\ records # <<>> /\ pc = "exit"
    /\ SameSecond
    /\ args.command = "uptime" /\ peer.command = "uptime -p"
    /\ output_file = PeerOutputFile

--------------------------------------------------------------------------
(* A host name that does not resolve: C22 *)

\* The target names a host, and the resolver had no address for it.
Unresolved ==
    /\ tool = "router" /\ ~args.list
    /\ args.target # NoTarget
    /\ ~IsIpAddress(HostPart(args.target))
    /\ dns = NoneVal

\* The host name is the routing key and no route's network contains it.
NameIsKey ==
    /\ target_ip = HostPart(args.target)
    /\ net_actions = << HostPart(args.target) >>
    /\ \A i \in 1..Len(routes) : ~ip_in_network(target_ip, routes[i].network)

\* C22 (as stated): when the target host name does not resolve, the name
\* is the routing key, it matches no CIDR route, and the run uses the
\* chain of the last "default" route if the table declares one and fails
\* with "No route found" otherwise.
C22_UnresolvedUsesDefault ==
    (FindRouteRan /\ Unresolved) =>
        /\ NameIsKey
        /\ IF DefaultRoutes # {}
           THEN /\ FindRouteReturned
                /\ jump_chain = routes[Last(DefaultRoutes)].via
           ELSE FindRouteFailed /\ exit_code = 1

\* C22 (amended): when the target host name does not resolve, the name is
\* the routing key, it matches no CIDR route, and the run uses the chain
\* of the last "default" route if that chain is non-empty; with no
\* "default" route, or an empty or absent chain on the last one, it fails
\* with "No route found" and exit code 1.
C22_UnresolvedUsesNonEmptyDefault ==
    (FindRouteRan /\ Unresolved) =>
        /\ NameIsKey
        /\ IF DefaultRoutes # {} /\ Truthy(routes[Last(DefaultRoutes)].via)
           THEN /\ FindRouteReturned
                /\ jump_chain = routes[Last(DefaultRoutes)].via
           ELSE FindRouteFailed /\ exit_code = 1

\* C22 witness: a name that did not resolve went past a CIDR route to the
\* default route's chain.
C22_Witness ==
    /\ FindRouteReturned /\ Unresolved
    /\ target_ip = "web1"
    /\ Len(routes) = 2
    /\ routes[1].network.kind = "cidr" /\ IsIpNetwork(routes[1].network)
    /\ routes[2].network.kind = "default"
    /\ jump_chain = routes[2].via /\ jump_chain # routes[1].via

--------------------------------------------------------------------------
(* A cleanup that fails: C23 *)

\* What a script run ends with when its cleanup succeeds: no error, and
\* success and exit code after the script's own exit code.
AsAfterCleanCleanup ==
    /\ result.errors = <<>>
    /\ result.success = OutcomeOf("exec", {"rc0"})
    /\ exit_code = IF OutcomeOf("exec", {"rc0"}) THEN 0 ELSE 1

\* A cleanup with a non-zero exit code changes nothing.
CleanupExitCodeIgnored ==
    (RunReturned /\ OutcomeOf("cleanup", {"rc0", "rc1"})) => AsAfterCleanCleanup

\* C23: a cleanup call that fails, by a non-zero exit code or by an error
\* raised while launching it, is ignored: result.success, result.errors
\* and the exit code are what they are after a cleanup that succeeds.
C23_CleanupFailureIgnored ==
    (RunReturned /\ OutcomeOf("cleanup", {"rc1", "oserror"})) =>
        AsAfterCleanCleanup

\* C23 witness: the script returned 0, the cleanup could not be launched,
\* and the run ended with an error recorded and exit code 1.
C23_Witness ==
    /\ RunReturned
    /\ OutcomeOf("exec", {"rc0"}) /\ OutcomeOf("cleanup", {"oserror"})
    /\ result.success /\ result.errors = <<"oserror">> /\ exit_code = 1

--------------------------------------------------------------------------
(* The recorded exit code: C24 *)

\* The command or script call whose remote process returned.
ReturnedCalls ==
    { i \in Calls({"command", "exec"}) : Returned(log[i].outcome) }

\* C24: once the remote command or script has returned, the recorded exit
\* code is the one it returned, in result and in the written record,
\* success is true exactly for exit code 0, and the exit code itself adds
\* nothing to result.errors (the only entry there can be is the error of a
\* cleanup call that raised afterwards).
C24_ExitCodeRecorded ==
    \A i \in ReturnedCalls :
        LET rc == ReturnCode(log[i].outcome)
        IN  /\ result.exit_code = rc
            /\ result.success = (rc = 0)
            /\ result.errors = IF OutcomeOf("cleanup", {"oserror"})
                               THEN <<"oserror">> ELSE <<>>
            /\ records # <<>> =>
                  /\ records[1].exit_code = rc
                  /\ records[1].success = (rc = 0)

\* C24 witness: a command returned 255 and the record holds 255, no
\* success and no error.
C24_Witness ==
    /\ pc = "exit" /\ exit_code = 1
    /\ OutcomeOf("command", {"rc255"})
    /\ records # <<>>
    /\ records[1].exit_code = 255 /\ ~records[1].success
    /\ records[1].errors = <<>>

--------------------------------------------------------------------------
(* The order of the steps: C25 *)

\* __init__ has built self.result: the address and the chain are known.
Constructed == result # NoResult

\* The place of the preflight probe among the calls: SSHJumpExecutor
\* resolves the address by a probe of its own first.
PreflightAt == IF tool = "router" THEN 1 ELSE 2

PayloadKinds == {"command", "scp", "chmod", "exec", "cleanup"}

LastCall == log[Len(log)]

\* execute_command or execute_script has returned to run().
DispatchFinished ==
    /\ Len(log) > PreflightAt
    /\ log[PreflightAt].outcome = "rc0"
    /\ LastCall.outcome # "interrupt"
    /\ ~Hangs(LastCall.outcome, LastCall.timeout)
    /\ CASE LastCall.kind = "command" -> TRUE
         [] LastCall.kind = "scp" -> LastCall.outcome # "rc0"
         [] LastCall.kind = "chmod" -> ~Returned(LastCall.outcome)
         [] LastCall.kind = "exec" ->
               ~Returned(LastCall.outcome) \/ args.upload
         [] LastCall.kind = "cleanup" -> TRUE
         [] OTHER -> FALSE

\* The preflight failed and nothing was dispatched.
PreflightEndedRun == Len(log) = PreflightAt /\ ProbeFailed

\* The address has been resolved: by extract_ip, which returns no empty
\* text, or by the probe of get_target_ip, whose answer may be empty.
AddressSet ==
    IF tool = "jump" THEN Issued("addrprobe") ELSE target_ip # ""

\* What every state of an invocation shows of the order of its steps.
OrderSoFar ==
    /\ Constructed => AddressSet
    /\ FindRouteFailed => AddressSet
    /\ Issued("preflight") =>
          /\ Constructed
          /\ log[PreflightAt].kind = "preflight"
          /\ Calls({"preflight"}) = {PreflightAt}
    /\ \A i \in Calls(PayloadKinds) :
          i > PreflightAt /\ log[PreflightAt].outcome = "rc0"
    /\ save_calls > 0 =>
          /\ pc = "exit"
          /\ PreflightEndedRun \/ DispatchFinished

\* C25: within one invocation address resolution, route resolution,
\* preflight, dispatch and recording occur in that order, each after the
\* one before it has completed: the address is set before the chain, both
\* before any call of the run, the payload only after a preflight that
\* succeeded, and the record only after dispatch has returned or the
\* preflight has failed; nothing follows the recording.
C25_StepsInOrder ==
    /\ []OrderSoFar
    /\ [][/\ target_ip' # target_ip =>
               (~Constructed /\ ~Issued("preflight") /\ save_calls = 0)
          /\ (~Constructed /\ Constructed') =>
               (AddressSet' /\ ~Issued("preflight")' /\ save_calls = 0)
          /\ save_calls > 0 => (log' = log /\ result' = result)
         ]_vars

\* C25 witness: a router run that resolved a host name, found its route,
\* probed, ran its command and wrote its record.
C25_Witness ==
    /\ tool = "router" /\ pc = "exit" /\ save_calls = 1
    /\ net_actions # <<>>
    /\ Len(log) = 2 /\ log[1].kind = "preflight" /\ log[2].kind = "command"
    /\ records = <<result>>

--------------------------------------------------------------------------
(* The calls of a script run: C26, C27 *)

\* The kinds of the calls made after the preflight, in the order made.
PayloadCallKinds ==
    [i \in 1..(Len(log) - PreflightAt) |-> log[i + PreflightAt].kind]

IsPrefix(s, t) == Len(s) <= Len(t) /\ s = SubSeq(t, 1, Len(s))

\* C26: the calls of a script run are made in the order copy, chmod,
\* execute, cleanup; chmod and the execution are made only after the copy
\* returned 0, and the cleanup only after the execution call has returned.
C26_ScriptCallsInOrder ==
    Issued("scp") =>
        /\ IsPrefix(PayloadCallKinds, <<"scp", "chmod", "exec", "cleanup">>)
        /\ (Issued("chmod") \/ Issued("exec")) => OutcomeOf("scp", {"rc0"})
        /\ Issued("cleanup") => OutcomeOf("exec", ExecRcs)

\* C26 witness: all four calls were made, the script having returned 1.
C26_Witness ==
    /\ PayloadCallKinds = <<"scp", "chmod", "exec", "cleanup">>
    /\ OutcomeOf("exec", {"rc1"})
    /\ pc = "exit"

AtMostOnce(kinds) == Cardinality(Calls(kinds)) <= 1

\* C27: nothing is retried: in every run the preflight probe, the copy
\* and the execution of the payload (command or script) are each called
\* at most once, whatever they give; so are chmod and the cleanup.
C27_NoRetry ==
    /\ AtMostOnce({"preflight"})
    /\ AtMostOnce({"scp"})
    /\ AtMostOnce({"command", "exec"})
    /\ AtMostOnce({"chmod"})
    /\ AtMostOnce({"cleanup"})
    /\ AtMostOnce({"addrprobe"})

\* C27 witness: a run whose preflight timed out has ended with that one
\* call made.
C27_Witness ==
    /\ RunReturned
    /\ OutcomeOf("preflight", {"noresponse"})
    /\ Cardinality(Calls({"preflight"})) = 1
    /\ Calls(PayloadKinds) = {}

--------------------------------------------------------------------------
(* Options of every call: C28 *)

\* Every call made so far carries StrictHostKeyChecking=accept-new.
AcceptNewEverywhere == \A i \in 1..Len(log) : log[i].argv.hostkey = "accept-new"

\* Every ssh call of a run carries ConnectTimeout=10.
SshCallsConnectBounded ==
    \A i \in Calls({"addrprobe", "preflight", "command", "chmod", "exec",
                    "cleanup"}) :
        log[i].argv.connect_timeout = ConnectTimeout

\* C28: every call the tools make (preflight, command, copy, chmod,
\* script execution, cleanup, list-mode probe) carries the "accept-new"
\* host-key policy and a connect timeout of 10 seconds.
C28_OptionsOnEveryCall ==
    \A i \in 1..Len(log) :
        /\ log[i].argv.hostkey = "accept-new"
        /\ log[i].argv.connect_timeout = ConnectTimeout

\* C28 witness: SSHRouter has made its copy call without any connect
\* timeout, and the copy returned 0.
C28_Witness ==
    /\ tool = "router"
    /\ \E i \in Calls({"scp"}) :
          /\ log[i].argv.connect_timeout # ConnectTimeout
          /\ log[i].argv.hostkey = "accept-new"
          /\ log[i].outcome = "rc0"

--------------------------------------------------------------------------
(* What a run leaves alone: C29, C30 *)

\* The relay option a call carries when it goes by the recorded chain.
RelayOf(chain) ==
    IF tool = "router" /\ chain = "direct" THEN <<>> ELSE <<chain>>

\* The table, the address and the chain after construction, and the
\* chain of every call made since.
ConstructedOnce ==
    Constructed =>
        /\ result.route = jump_chain
        /\ result.target_ip = target_ip
        /\ routes = routes_file.table
        /\ \A i \in Calls({"preflight"} \cup PayloadKinds) :
              log[i].argv.relay = RelayOf(result.route)

\* C29: the route table, the target IP and the chain are computed once,
\* at construction, and no later step (preflight, dispatch, cleanup,
\* recording) changes them or their copies in the result; every call of
\* the run goes by the chain the result records.
C29_ConstructionIsFinal ==
    /\ []ConstructedOnce
    /\ [][/\ routes' # routes => pc = "load_routes"
          /\ Constructed =>
               /\ routes' = routes
               /\ target_ip' = target_ip
               /\ jump_chain' = jump_chain
               /\ result'.route = result.route
               /\ result'.target_ip = result.target_ip
         ]_vars

\* C29 witness: a script run over a chain of two relays has ended, its
\* four calls and its record all carrying that chain.
C29_Witness ==
    /\ tool = "router" /\ pc = "exit"
    /\ jump_chain = "bastion1,bastion2"
    /\ PayloadCallKinds = <<"scp", "chmod", "exec", "cleanup">>
    /\ records # <<>> /\ records[1].route = jump_chain
    /\ \A i \in 1..Len(log) : log[i].argv.relay = <<jump_chain>>

\* C30: the result is final when it is written: the write stores the
\* result as it is at that moment, and after it no step changes the
\* result or the record, so the record equals the final result.
C30_RecordIsFinalResult ==
    /\ [](records # <<>> => records[Len(records)] = result)
    /\ [][/\ records' # records =>
               (records' = Append(records, result) /\ result' = result)
          /\ records # <<>> => (result' = result /\ records' = records)
         ]_vars

\* C30 witness: a script run that failed with exit code 1 has ended with
\* its record equal to the result in memory.
C30_Witness ==
    /\ pc = "exit" /\ exit_code = 1
    /\ OutcomeOf("exec", {"rc1"})
    /\ records = <<result>>
    /\ result.exit_code = 1 /\ ~result.success

--------------------------------------------------------------------------
(* Targets given by IP literal: C31 *)

\* The literal IPv6 addresses of LiteralTargets, as cut text and as text.
Ipv6Text ==
    (<<"2001", ":", "db8", ":", ":", "1">> :> "2001:db8::1")
    @@ (<<"fe80", ":", ":", "2">> :> "fe80::2")

\* The host part of a target [user@]host[:port] whose host is an IP
\* literal: the IPv6 address after user@, or the IPv4 address before :port.
LiteralHost(target) ==
    LET rest == AfterLast(target, "@")
    IN  IF rest \in DOMAIN Ipv6Text THEN Ipv6Text[rest] ELSE rest[1]

\* extract_ip has run.
ExtractIpRan ==
    tool = "router" /\ pc \in {"find_route", "test_connectivity"}

\* For an IPv4 literal the address is returned as it is, and the resolver
\* is not asked.
Ipv4LiteralReturned ==
    (ExtractIpRan /\ IsIpAddress(LiteralHost(args.target))) =>
        (target_ip = LiteralHost(args.target) /\ net_actions = <<>>)

\* C31: for every target [user@]host[:port] whose host part is an IP
\* literal, IPv4 or IPv6, extract_ip returns that literal, and the
\* resolver is not asked.
C31_LiteralReturned ==
    ExtractIpRan =>
        (target_ip = LiteralHost(args.target) /\ net_actions = <<>>)

\* C31 witness: for admin@2001:db8::1 the resolver was asked for "2001",
\* and the address in use is not the literal.
C31_Witness ==
    /\ ExtractIpRan
    /\ args.target = <<"admin", "@", "2001", ":", "db8", ":", ":", "1">>
    /\ net_actions = <<"2001">>
    /\ target_ip # "2001:db8::1"

--------------------------------------------------------------------------
(* Exit code and result.success: C32, C33 *)

\* The exit code is 0 exactly when result.success is true, in memory and
\* in the record written.
ExitZeroIffSuccess ==
    /\ exit_code = 0 <=> result.success
    /\ records # <<>> => (exit_code = 0 <=> records[1].success)

\* Unless the cleanup call raised, the exit code agrees with
\* result.success at the end of every run.
ExitAgreesUnlessCleanupRaised ==
    (RunReturned /\ ~OutcomeOf("cleanup", {"oserror", "typeerror"})) =>
        ExitZeroIffSuccess

\* C32: at the end of every run of either executor the exit code is 0 if
\* and only if result.success, in memory and in the persisted record, is
\* true.
C32_ExitZeroIffSuccess == RunReturned => ExitZeroIffSuccess

\* C32 witness: a run of ssh_jump_exec.py has exited with code 1 and has
\* written a record whose success is true.
C32_Witness ==
    /\ tool = "jump" /\ RunReturned /\ exit_code = 1
    /\ records # <<>> /\ records[1].success
    /\ result.success

\* result.success is never set once an error is recorded.
SuccessNeverSetAfterError ==
    [][(result.errors # <<>> /\ ~result.success) => ~result'.success]_vars

\* An error is appended to a successful result only by a cleanup call that
\* raised.
ErrorAfterSuccessOnlyByCleanup ==
    (result.success /\ result.errors # <<>>) =>
        OutcomeOf("cleanup", {"oserror", "typeerror"})

\* C33: in every reachable state, if result.success is true then
\* result.errors is empty.
C33_SuccessImpliesNoErrors == result.success => result.errors = <<>>

\* C33 witness: the script has returned 0 and result.success is set; the
\* cleanup call then raised, and its error is in result.errors of the
\* successful result.
C33_Witness ==
    /\ result.success /\ Len(result.errors) = 1
    /\ LastCall.kind = "cleanup" /\ LastCall.outcome = "oserror"
    /\ pc = "save"

--------------------------------------------------------------------------
(* Routes whose network is not a valid CIDR block: C34 *)

\* The network of the route is "default", "direct" or a CIDR block that
\* parses: not malformed text, not an address with host bits set, not
\* missing.
ValidNetwork(route) ==
    \/ route.network.kind \in {"default", "direct"}
    \/ /\ route.network.kind = "cidr"
       /\ route.network.base \in DOMAIN LiteralAddr
       /\ route.network.len \in 0..32
       /\ LiteralAddr[route.network.base]
            % Pow2(32 - route.network.len) = 0

InvalidRoutes == { i \in 1..Len(routes) : ~ValidNetwork(routes[i]) }

\* C34: a route whose network is not a valid CIDR block never matches and
\* never aborts the resolution: find_route ends as it would on the table
\* without such routes, with the same chain or the same "No route found".
C34_InvalidRouteIsAbsent ==
    FindRouteRan =>
        LET r == find_route(SelectSeq(routes, ValidNetwork), target_ip)
        IN  /\ FindRouteReturned <=> r.ok
            /\ FindRouteReturned => jump_chain = r.chain
            /\ FindRouteReturned =>
                  \E j \in 1..Len(routes) :
                      /\ j \notin InvalidRoutes
                      /\ routes[j].via = jump_chain

\* C34 witness: 10.0.0.1/31, which has host bits set and would contain the
\* target IP, comes first and names another chain; the default route after
\* it was used.
C34_Witness ==
    /\ FindRouteReturned
    /\ target_ip = "10.0.0.1"
    /\ Len(routes) = 2
    /\ routes[1].network = Net("10.0.0.1", 31)
    /\ routes[2].network = DefaultSel
    /\ routes[2].via # routes[1].via
    /\ jump_chain = routes[2].via

--------------------------------------------------------------------------
(* Command and script both supplied: C35 *)

\* The calls made after the preflight probe.
CallsAfterPreflight == { i \in 1..Len(log) : log[i].kind # "preflight"
                                             /\ log[i].kind # "addrprobe" }

\* C35: when both a command and a script are supplied only the command is
\* dispatched: after a successful preflight the command call is the next
\* and only call, no copy, chmod, script execution or cleanup call is
\* made, and the record file is named after the command.
C35_CommandWinsOverScript ==
    BothSupplied =>
        /\ \A i \in CallsAfterPreflight :
              /\ log[i].kind = "command"
              /\ log[i].argv.prog = "ssh"
              /\ log[i].path = NoPath
        /\ Cardinality(CallsAfterPreflight) <= 1
        /\ OutcomeOf("preflight", {"rc0"}) =>
              (pc = "execute_command" \/ Issued("command"))
        /\ result.remote_script_path = NoPath
        /\ records # <<>> =>
              output_file
                = <<"audit", target_ip, main_cmd(args.command), StartSecond>>

\* C35 witness: with both supplied the command ran and returned 1, it is
\* the only call after the preflight, and the record was written.
C35_Witness ==
    /\ BothSupplied
    /\ pc = "exit" /\ exit_code = 1
    /\ Len(log) = PreflightAt + 1
    /\ LastCall.kind = "command" /\ LastCall.outcome = "rc1"
    /\ records = <<result>>

--------------------------------------------------------------------------
(* chmod that returns a non-zero exit code: C36 *)

\* The chmod call after a successful upload returned a non-zero exit code.
ChmodFailed == OutcomeOf("scp", {"rc0"}) /\ OutcomeOf("chmod", {"rc1"})

\* C36: a non-zero exit code of chmod does not stop the run: nothing is
\* recorded for it, the script execution call is issued next on the same
\* remote path, and result.success is decided by the exit code of that
\* call alone.
C36_ChmodExitCodeIgnored ==
    ChmodFailed =>
        /\ pc = "exec_script" \/ Issued("exec")
        /\ pc = "exec_script" =>
              (~result.success /\ result.errors = <<>>
                 /\ result.exit_code = NoCode /\ exit_code = NoExit)
        /\ \A i \in Calls({"exec"}) :
              /\ log[i - 1].kind = "chmod"
              /\ log[i].path = log[i - 1].path
              /\ Returned(log[i].outcome) =>
                    /\ result.success = (log[i].outcome = "rc0")
                    /\ result.exit_code = ReturnCode(log[i].outcome)
                    /\ (pc = "exit" /\ ~Issued("cleanup")) =>
                          exit_code = IF log[i].outcome = "rc0" THEN 0 ELSE 1

\* C36 witness: chmod returned 1, the script was run all the same and
\* returned 0, and the run ended successfully with exit code 0.
C36_Witness ==
    /\ ChmodFailed
    /\ OutcomeOf("exec", {"rc0"})
    /\ pc = "exit" /\ exit_code = 0
    /\ result.success /\ result.errors = <<>>

--------------------------------------------------------------------------
(* The no-save flag: C37 *)

\* The call that is due after the calls made so far, from the tool, the
\* command, the script and the keep flag alone; "none" when the run makes
\* no further call.
Due ==
    IF log = <<>>
    THEN IF tool = "router" THEN "preflight" ELSE "addrprobe"
    ELSE LET kind == LastCall.kind
             o == LastCall.outcome
         IN  CASE kind = "addrprobe" -> "preflight"
               [] kind = "preflight" /\ o = "rc0" ->
                     IF Truthy(args.command) THEN "command"
                     ELSE IF args.script # NoPath THEN "scp" ELSE "none"
               [] kind = "scp" /\ o = "rc0" -> "chmod"
               [] kind = "chmod" /\ o \in PlainRcs -> "exec"
               [] kind = "exec" /\ Returned(o) /\ ~args.upload -> "cleanup"
               [] OTHER -> "none"

\* result.success and the exit code of a run that reached the save step,
\* from the calls made alone.
SuccessByLog == OutcomeOf("command", {"rc0"}) \/ OutcomeOf("exec", {"rc0"})
ExitZeroByLog ==
    SuccessByLog /\ ~OutcomeOf("cleanup", {"oserror", "typeerror"})

\* C37: with the no-save flag no record file is written on any path, and
\* the flag changes nothing else: with or without it each call made is the
\* one due after the calls before it, the run goes to the save step only
\* when no call is due, result.success and the exit code are given by the
\* calls made, and the save step changes neither the calls nor the result.
C37_NoSaveOnlySkipsRecord ==
    /\ [](args.no_save => records = <<>>)
    /\ []((log # <<>> /\ pc \in {"save", "exit"}) => Due = "none")
    /\ [](result.success <=> SuccessByLog)
    /\ []((pc = "exit" /\ save_calls = 1) =>
             (exit_code = IF ExitZeroByLog THEN 0 ELSE 1))
    /\ [][/\ log' # log =>
               /\ log' = Append(log, log'[Len(log')])
               /\ log'[Len(log')].kind = Due
          /\ SaveStep => (log' = log /\ result' = result)
         ]_vars

\* C37 witness: a script run with the no-save flag went through upload,
\* chmod, execution and cleanup, passed the save step and ended with exit
\* code 0 and no record.
C37_Witness ==
    /\ args.no_save /\ ~Truthy(args.command)
    /\ pc = "exit" /\ save_calls = 1 /\ records = <<>>
    /\ OutcomeOf("scp", {"rc0"}) /\ OutcomeOf("exec", {"rc0"})
    /\ OutcomeOf("cleanup", {"rc0"})
    /\ result.success /\ exit_code = 0

--------------------------------------------------------------------------
(* The address probe of SSHJumpExecutor: C38 *)

\* The host of each target, user@ and :port stripped.
HostOf ==
    (<<"admin", "@", "10.0.0.1">> :> "10.0.0.1")
    @@ (<<"admin", "@", "10.0.0.2", ":", "22">> :> "10.0.0.2")
    @@ (<<"192.168.1.1">> :> "192.168.1.1")
    @@ (<<"admin", "@", "web1">> :> "web1")

\* The address probe was made and failed: non-zero exit, timeout, an error
\* raised, an interrupt, or exit 0 with nothing written.
AddrProbeFailed ==
    /\ tool = "jump" /\ log # <<>>
    /\ log[1].kind = "addrprobe"
    /\ log[1].outcome # "rc0" \/ log[1].stdout = ""

\* C38: in SSHJumpExecutor a failed address probe never aborts the run:
\* the target IP is the host part of the target, user@ and :port stripped,
\* the preflight probe is made next, and after a successful preflight the
\* command or script is dispatched.
C38_ProbeFailureFallsBack ==
    AddrProbeFailed =>
        /\ target_ip = HostOf[args.target]
        /\ result.target_ip = target_ip
        /\ pc = "test_connectivity" \/ Issued("preflight")
        /\ Len(log) >= 2 =>
              /\ log[2].kind = "preflight"
              /\ log[2].dest = args.target
        /\ (Len(log) = 2 /\ log[2].outcome = "rc0") => pc = Dispatch
        /\ ~(pc = "exit" /\ Len(log) = 1)

\* C38 witness: the address probe of admin@10.0.0.2:22 timed out, the run
\* went on with 10.0.0.2 for target IP, and its command returned 0.
C38_Witness ==
    /\ AddrProbeFailed /\ log[1].outcome = "noresponse"
    /\ args.target = <<"admin", "@", "10.0.0.2", ":", "22">>
    /\ target_ip = "10.0.0.2"
    /\ OutcomeOf("preflight", {"rc0"}) /\ OutcomeOf("command", {"rc0"})
    /\ pc = "exit" /\ exit_code = 0

==========================================================================
